---- MODULE Spec2Model ----
\* Model of the EVM dispatcher generator (src/src/main.rs): the fixed-width
\* byte arithmetic (mul_256, shr_256), the magic-number search
\* (check_magic_numbers, find_magic_numbers) and the jump-table layout that
\* main prints from the search result.
\*
\* Width scaling: the program works on [u8; 32] words, u32 selectors and a
\* u32 attempt counter.  The model keeps 8-bit bytes and 16-bit intermediate
\* products, and scales the number of bytes per word (NBytes), the number of
\* selector bytes (SelBytes) and the counter width (AttemptBits).
EXTENDS Integers, Sequences, FiniteSets

\* ---------------------------------------------------------------- bounds
NBytes == 2          \* bytes per word (32 in the program)
SelBytes == 1        \* bytes per selector (4 in the program)
AttemptBits == 3     \* bits of the attempt counter (32 in the program)
MaxSelectors == 2    \* largest selector count explored (20 in main)

\* ------------------------------------------------------ program constants
ByteModulus == 256       \* u8
WordModulus == 65536     \* u16, the type of the partial products in mul_256
ShiftStep == 8           \* step of the shift sweep
InitialBestMaxByte == 255
PreambleLength == 78
SlotSize == 6
AddressBase == 15728640  \* 0xf00000
AddressStride == 4096    \* 0x1000

RECURSIVE Pow2(_)
Pow2(k) == IF k = 0 THEN 1 ELSE 2 * Pow2(k - 1)

RECURSIVE Pow256(_)
Pow256(k) == IF k = 0 THEN 1 ELSE ByteModulus * Pow256(k - 1)

Idx == 0..(NBytes - 1)
ZeroWord == [i \in Idx |-> 0]
AttemptsModulus == Pow2(AttemptBits)
LastShift == ShiftStep * (NBytes - 1)

\* ------------------------------------------------------------ bit helpers
RECURSIVE BitOr(_, _)
BitOr(x, y) ==
  IF x = 0 THEN y
  ELSE IF y = 0 THEN x
  ELSE (IF x % 2 = 1 \/ y % 2 = 1 THEN 1 ELSE 0) + 2 * BitOr(x \div 2, y \div 2)

RECURSIVE BitAnd(_, _)
BitAnd(x, y) ==
  IF x = 0 \/ y = 0 THEN 0
  ELSE (IF x % 2 = 1 /\ y % 2 = 1 THEN 1 ELSE 0) + 2 * BitAnd(x \div 2, y \div 2)

\* u8 >> k and u8 << k (the left shift drops the bits above bit 7)
ShrU8(x, k) == x \div Pow2(k)
ShlU8(x, k) == (x * Pow2(k)) % ByteModulus

\* -------------------------------------------------------------- u32_to_256
\* arr[..4].copy_from_slice(&x.to_le_bytes()): little-endian selector bytes
\* in the low positions, zero above.
u32_to_256(x) ==
  [i \in Idx |-> IF i < SelBytes THEN (x \div Pow256(i)) % ByteModulus ELSE 0]

\* ----------------------------------------------------------------- mul_256
\* carry = prod >> 8
CarryOut_dropped(prod) == 0
CarryOut(prod) == prod \div ByteModulus

\* The inner loop over j for one i; prod is a u16, so the sum is reduced
\* modulo 2^16 and an overflow of the 16-bit sum is recorded.
RECURSIVE MulRow(_, _, _, _, _, _, _)
MulRow(a, b, result, i, j, carry, overflow) ==
  IF j >= NBytes - i THEN [result |-> result, overflow |-> overflow]
  ELSE LET exact == a[i] * b[j] + result[i + j] + carry
           prod == exact % WordModulus
       IN MulRow(a, b, [result EXCEPT ![i + j] = BitAnd(prod, 255)],
                 i, j + 1, CarryOut(prod),
                 overflow \/ exact >= WordModulus)

\* The outer loop over i.
RECURSIVE MulRows(_, _, _, _, _)
MulRows(a, b, result, i, overflow) ==
  IF i >= NBytes THEN [result |-> result, overflow |-> overflow]
  ELSE LET row == MulRow(a, b, result, i, 0, 0, overflow)
       IN MulRows(a, b, row.result, i + 1, row.overflow)

MulRun(a, b) == MulRows(a, b, ZeroWord, 0, FALSE)
mul_256(a, b) == MulRun(a, b).result

\* ----------------------------------------------------------------- shr_256
\* val[i + byte_shift + 1] << (8 - bit_shift)
BorrowBits_wrong_shift(next, bit_shift) == ShlU8(next, bit_shift)
BorrowBits(next, bit_shift) == ShlU8(next, 8 - bit_shift)

shr_256(val, n) ==
  LET byte_shift == n \div 8
      bit_shift == n % 8
  IN [i \in Idx |->
        IF i + byte_shift < NBytes
        THEN LET v0 == ShrU8(val[i + byte_shift], bit_shift)
                 v == IF bit_shift > 0 /\ i + byte_shift + 1 < NBytes
                      THEN BitOr(v0, BorrowBits(val[i + byte_shift + 1], bit_shift))
                      ELSE v0
             IN BitAnd(v, 255)
        ELSE 0]

\* ---------------------------------------------------------------- inputs
\* Selector vectors: pairwise distinct selectors (generate_function_selectors
\* collects them in a HashSet), in any order.
SelPool == {1, 2, Pow256(SelBytes) - 1}
Distinct(s) == \A i, j \in DOMAIN s : i # j => s[i] # s[j]
SelectorVecs ==
  {s \in UNION {[1..n -> SelPool] : n \in 1..MaxSelectors} : Distinct(s)}

\* Multipliers random_256bit may return: zero, one, all-ones, 0x..00ff,
\* 0xff..01 and 0x01..01.
QSet ==
  { ZeroWord,
    [i \in Idx |-> IF i = 0 THEN 1 ELSE 0],
    [i \in Idx |-> 255],
    [i \in Idx |-> IF i = 0 THEN 255 ELSE 0],
    [i \in Idx |-> IF i = 0 THEN 1 ELSE 255],
    [i \in Idx |-> 1] }

\* generate_function_addresses(count): 0xf00000 + (i + 1) * 0x1000
generate_function_addresses(count) ==
  [k \in 1..count |-> AddressBase + k * AddressStride]

\* ----------------------------------------------------- check_magic_numbers
\* shifted[0] of (x as word) * q >> shift
result_byte(x, q, shift) == shr_256(mul_256(u32_to_256(x), q), shift)[0]

\* The loop over values with the HashSet of seen bytes; returns false at the
\* first byte already seen.
RECURSIVE CheckFrom(_, _, _, _, _)
CheckFrom(q, shift, values, k, results) ==
  IF k > Len(values) THEN TRUE
  ELSE LET b == result_byte(values[k], q, shift)
       IN IF b \in results THEN FALSE
          ELSE CheckFrom(q, shift, values, k + 1, results \cup {b})

check_magic_numbers_skip_last(q, shift, values) ==
  CheckFrom(q, shift, SubSeq(values, 1, Len(values) - 1), 1, {})
check_magic_numbers(q, shift, values) == CheckFrom(q, shift, values, 1, {})

\* max_byte = max_byte.max(shifted[0]) over values, from 0
RECURSIVE MaxByteFrom(_, _, _, _, _)
MaxByteFrom(q, shift, values, k, max_byte) ==
  IF k > Len(values) THEN max_byte
  ELSE LET b == result_byte(values[k], q, shift)
       IN MaxByteFrom(q, shift, values, k + 1, IF b > max_byte THEN b ELSE max_byte)

max_byte_of(q, shift, values) == MaxByteFrom(q, shift, values, 1, 0)

\* if max_byte < best_max_byte
IsBetter_le(max_byte, best) == max_byte <= best
IsBetter_ne(max_byte, best) == max_byte # best
IsBetter(max_byte, best) == max_byte < best

\* ------------------------------------------------------------ main: layout
NoEntry == -1
Bytes == 0..(ByteModulus - 1)
EmptyMap == [b \in Bytes |-> NoEntry]

\* The loop over function_selectors.iter().zip(function_addresses.iter()):
\* index_to_address.insert(result_byte, addr) and
\* index_to_selector.insert(result_byte, x); a later insert replaces an
\* earlier one under the same key.
RECURSIVE IndexMaps(_, _, _, _, _, _)
IndexMaps(values, addrs, q, shift, k, maps) ==
  IF k > Len(values) \/ k > Len(addrs) THEN maps
  ELSE LET b == result_byte(values[k], q, shift)
       IN IndexMaps(values, addrs, q, shift, k + 1,
                    [index_to_address |-> [maps.index_to_address EXCEPT ![b] = addrs[k]],
                     index_to_selector |-> [maps.index_to_selector EXCEPT ![b] = values[k]]])

\* offset = 78 + (result_byte as usize * 6)
SlotOffset_short(result_byte_) == PreambleLength + result_byte_ * (SlotSize - 1)
SlotOffset(result_byte_) == PreambleLength + result_byte_ * SlotSize

\* for i in 0..=255: push (offset, result_byte, selector, addr) for every
\* byte value that has an address.  The range lo..hi is walked in increasing
\* order, by halves.
RECURSIVE CollectOffsets(_, _, _)
CollectOffsets(maps, lo, hi) ==
  IF lo = hi
  THEN IF maps.index_to_address[lo] # NoEntry
       THEN <<[offset |-> SlotOffset(lo), result_byte |-> lo,
               selector |-> maps.index_to_selector[lo],
               addr |-> maps.index_to_address[lo]]>>
       ELSE <<>>
  ELSE LET mid == (lo + hi) \div 2
       IN CollectOffsets(maps, lo, mid) \o CollectOffsets(maps, mid + 1, hi)

\* dispatcher_offsets.sort_by_key(offset): a stable sort, as insertion sort.
RECURSIVE InsertByOffset(_, _)
InsertByOffset(sorted, e) ==
  IF sorted = <<>> THEN <<e>>
  ELSE IF sorted[Len(sorted)].offset <= e.offset THEN Append(sorted, e)
  ELSE Append(InsertByOffset(SubSeq(sorted, 1, Len(sorted) - 1), e),
              sorted[Len(sorted)])

RECURSIVE SortByOffset(_, _, _)
SortByOffset(entries, k, sorted) ==
  IF k > Len(entries) THEN sorted
  ELSE SortByOffset(entries, k + 1, InsertByOffset(sorted, entries[k]))

\* if current_offset < offset
GapBefore_reversed(current, offset) == current > offset
GapBefore(current, offset) == current < offset

\* ------------------------------------------------------------------ state
VARIABLES
  values,             \* function_selectors
  max_attempts,       \* the attempt budget
  attempts,           \* u32 counter of find_magic_numbers
  best_solution,      \* Option<(q, shift)>
  best_max_byte,      \* u8
  q,                  \* multiplier of the current outer iteration
  shift,              \* shift of the current inner iteration
  pc,                 \* position in find_magic_numbers / main
  updates,            \* max bytes of the "Found better solution" reports
  min_unique,         \* least max byte over the collision-free pairs evaluated
  wrapped,            \* the attempt counter wrapped around
  dispatcher_offsets, \* Vec<(offset, result_byte, selector, addr)>
  print_idx,          \* position of the printing loop
  current_offset,     \* current_offset of the printing loop
  gaps,               \* the "Gap from offset a to b" reports
  arith_a, arith_b,   \* operands of the arithmetic under test
  arith_n,            \* shift amount under test
  arith_mul,          \* record returned by MulRun(arith_a, arith_b)
  arith_shr,          \* shr_256(arith_a, arith_n)
  arith_pc

search_vars == <<values, max_attempts, attempts, best_solution, best_max_byte,
                 q, shift, pc, updates, min_unique, wrapped>>
layout_vars == <<dispatcher_offsets, print_idx, current_offset, gaps>>
arith_vars == <<arith_a, arith_b, arith_n, arith_mul, arith_shr, arith_pc>>
vars == <<search_vars, layout_vars, arith_vars>>

None == [some |-> FALSE, q |-> ZeroWord, shift |-> 0]
Some(q_, shift_) == [some |-> TRUE, q |-> q_, shift |-> shift_]
NoByte == ByteModulus

SearchStart ==
  /\ attempts = 0
  /\ best_solution = None
  /\ best_max_byte = InitialBestMaxByte
  /\ q = ZeroWord
  /\ shift = 0
  /\ updates = <<>>
  /\ min_unique = NoByte
  /\ wrapped = FALSE

LayoutStart ==
  /\ dispatcher_offsets = <<>>
  /\ print_idx = 1
  /\ current_offset = PreambleLength
  /\ gaps = <<>>

ArithIdle ==
  /\ arith_a = ZeroWord
  /\ arith_b = ZeroWord
  /\ arith_n = 0
  /\ arith_mul = [result |-> ZeroWord, overflow |-> FALSE]
  /\ arith_shr = ZeroWord

Init ==
  /\ values \in SelectorVecs
  /\ max_attempts \in 0..(AttemptsModulus - 1)
  /\ pc = "loop"
  /\ SearchStart
  /\ LayoutStart
  /\ ArithIdle
  /\ arith_pc = "idle"

\* ----------------------------------------------------- find_magic_numbers
\* while attempts < max_attempts { let q = random_256bit(); ...
DrawMultiplier ==
  /\ pc = "loop"
  /\ attempts < max_attempts
  /\ q' \in QSet
  /\ shift' = 0
  /\ pc' = "sweep"
  /\ UNCHANGED <<values, max_attempts, attempts, best_solution, best_max_byte,
                 updates, min_unique, wrapped>>
  /\ UNCHANGED <<layout_vars, arith_vars>>

\* One iteration of "for shift in (0..=248).step_by(8)": the collision
\* check, the best-so-far update and attempts += 1.  attempts is a u32: an
\* increment past its range panics in a build with overflow checks and wraps
\* to zero in a build without.
Evaluate ==
  /\ pc = "sweep"
  /\ LET unique == check_magic_numbers(q, shift, values)
         max_byte == max_byte_of(q, shift, values)
         better == unique /\ IsBetter(max_byte, best_max_byte)
     IN /\ best_max_byte' = IF better THEN max_byte ELSE best_max_byte
        /\ best_solution' = IF better THEN Some(q, shift) ELSE best_solution
        /\ updates' = IF better THEN Append(updates, max_byte) ELSE updates
        /\ min_unique' = IF unique /\ max_byte < min_unique THEN max_byte ELSE min_unique
  /\ IF attempts + 1 < AttemptsModulus
     THEN /\ attempts' = attempts + 1
          /\ wrapped' = wrapped
          /\ IF shift < LastShift
             THEN pc' = "sweep" /\ shift' = shift + ShiftStep
             ELSE pc' = "loop" /\ shift' = shift
     ELSE \/ /\ pc' = "panicked"
             /\ UNCHANGED <<attempts, wrapped, shift>>
          \/ /\ attempts' = 0
             /\ wrapped' = TRUE
             /\ IF shift < LastShift
                THEN pc' = "sweep" /\ shift' = shift + ShiftStep
                ELSE pc' = "loop" /\ shift' = shift
  /\ UNCHANGED <<values, max_attempts, q>>
  /\ UNCHANGED <<layout_vars, arith_vars>>

\* The loop condition fails: find_magic_numbers returns best_solution.
Return ==
  /\ pc = "loop"
  /\ ~(attempts < max_attempts)
  /\ pc' = "returned"
  /\ UNCHANGED <<values, max_attempts, attempts, best_solution, best_max_byte,
                 q, shift, updates, min_unique, wrapped>>
  /\ UNCHANGED <<layout_vars, arith_vars>>

\* ------------------------------------------------------------------- main
\* None => println!("Could not find magic numbers within max attempts")
ReportNone ==
  /\ pc = "returned"
  /\ ~best_solution.some
  /\ pc' = "done"
  /\ UNCHANGED <<values, max_attempts, attempts, best_solution, best_max_byte,
                 q, shift, updates, min_unique, wrapped>>
  /\ UNCHANGED <<layout_vars, arith_vars>>

\* Some((q, shift)): build the index maps, collect and sort the entries.
BuildLayout ==
  /\ pc = "returned"
  /\ best_solution.some
  /\ LET addrs == generate_function_addresses(Len(values))
         maps == IndexMaps(values, addrs, best_solution.q, best_solution.shift, 1,
                           [index_to_address |-> EmptyMap, index_to_selector |-> EmptyMap])
     IN dispatcher_offsets' = SortByOffset(CollectOffsets(maps, 0, 255), 1, <<>>)
  /\ print_idx' = 1
  /\ current_offset' = PreambleLength
  /\ gaps' = <<>>
  /\ pc' = "print"
  /\ UNCHANGED <<values, max_attempts, attempts, best_solution, best_max_byte,
                 q, shift, updates, min_unique, wrapped>>
  /\ UNCHANGED arith_vars

\* One iteration of the printing loop over dispatcher_offsets.
PrintDispatcher ==
  /\ pc = "print"
  /\ print_idx <= Len(dispatcher_offsets)
  /\ LET e == dispatcher_offsets[print_idx]
     IN /\ gaps' = IF GapBefore(current_offset, e.offset)
                   THEN Append(gaps, [from |-> current_offset, to |-> e.offset])
                   ELSE gaps
        /\ current_offset' = e.offset + SlotSize
  /\ print_idx' = print_idx + 1
  /\ UNCHANGED <<dispatcher_offsets, pc>>
  /\ UNCHANGED <<search_vars, arith_vars>>

\* The printing loop is over.
FinishLayout ==
  /\ pc = "print"
  /\ print_idx > Len(dispatcher_offsets)
  /\ pc' = "done"
  /\ UNCHANGED <<values, max_attempts, attempts, best_solution, best_max_byte,
                 q, shift, updates, min_unique, wrapped>>
  /\ UNCHANGED <<layout_vars, arith_vars>>

Next ==
  \/ DrawMultiplier
  \/ Evaluate
  \/ Return
  \/ ReportNone
  \/ BuildLayout
  \/ PrintDispatcher
  \/ FinishLayout

Spec == Init /\ [][Next]_vars

\* ------------------------------------------- the arithmetic, taken alone
\* Operand bytes: 0, 1, 2, 0xaa and 0xff in every position.
ByteSamples == {0, 1, 2, 170, 255}
ArithWords == [Idx -> ByteSamples]
MaxShiftAmount == ShiftStep * NBytes - 1

InitArith ==
  /\ arith_a \in ArithWords
  /\ arith_b \in ArithWords
  /\ arith_n = 0
  /\ arith_mul = [result |-> ZeroWord, overflow |-> FALSE]
  /\ arith_shr = ZeroWord
  /\ arith_pc = "input"
  /\ values = <<>>
  /\ max_attempts = 0
  /\ pc = "idle"
  /\ SearchStart
  /\ LayoutStart

\* mul_256(&a, &b)
ApplyMul ==
  /\ arith_pc = "input"
  /\ arith_mul' = MulRun(arith_a, arith_b)
  /\ arith_pc' = "multiplied"
  /\ UNCHANGED <<arith_a, arith_b, arith_n, arith_shr>>
  /\ UNCHANGED <<search_vars, layout_vars>>

\* shr_256(&a, n)
ApplyShr ==
  /\ arith_pc = "input"
  /\ \E n \in 0..MaxShiftAmount :
       /\ arith_n' = n
       /\ arith_shr' = shr_256(arith_a, n)
  /\ arith_pc' = "shifted"
  /\ UNCHANGED <<arith_a, arith_b, arith_mul>>
  /\ UNCHANGED <<search_vars, layout_vars>>

NextArith == ApplyMul \/ ApplyShr

SpecArith == InitArith /\ [][NextArith]_vars

\* The unsigned value of a little-endian word.
RECURSIVE ToIntFrom(_, _)
ToIntFrom(w, i) == IF i >= NBytes THEN 0 ELSE w[i] + ByteModulus * ToIntFrom(w, i + 1)
ToInt(w) == ToIntFrom(w, 0)

AllOnes == [i \in Idx |-> 255]

\* a * b reduced modulo m, by doubling: a * b = 2 * (a * (b div 2)) + (b mod 2) * a
RECURSIVE RefMulMod(_, _, _)
RefMulMod(a, b, m) ==
  IF b = 0 THEN 0
  ELSE (2 * RefMulMod(a, b \div 2, m) + (IF b % 2 = 1 THEN a ELSE 0)) % m

\* C9: mul_256(a, b) is the product a * b reduced modulo 2^(8 * NBytes), and
\* no 16-bit partial sum overflows.
C9_MulIsProductModWord ==
  arith_pc = "multiplied" =>
    /\ ToInt(arith_mul.result) = RefMulMod(ToInt(arith_a), ToInt(arith_b), Pow256(NBytes))
    /\ ~arith_mul.overflow

\* The all-ones operands have been multiplied: the product is 1 modulo the
\* word size, every carry being at its maximum on the way.
C9_Witness ==
  /\ arith_pc = "multiplied"
  /\ arith_a = AllOnes
  /\ arith_b = AllOnes
  /\ ToInt(arith_mul.result) = 1

\* C10: shr_256(v, n) is floor(v / 2^n) for every shift amount below the word
\* width, byte-aligned or not.
C10_ShrIsFloorDiv ==
  arith_pc = "shifted" => ToInt(arith_shr) = ToInt(arith_a) \div Pow2(arith_n)

\* A shift by a non-multiple of 8 that borrows set bits from the next byte.
C10_Witness ==
  /\ arith_pc = "shifted"
  /\ arith_n % 8 # 0
  /\ arith_a = AllOnes
  /\ arith_shr[0] = 255

\* ------------------------------------------------ claims about the search
\* find_magic_numbers has returned (main may have gone on to the layout).
Returned == pc \in {"returned", "print", "done"}

\* The byte the returned Solution maps selector x to.
SolutionByte(x) == result_byte(x, best_solution.q, best_solution.shift)

\* C1: when find_magic_numbers returns, the attempt counter, which counts the
\* (multiplier, shift) evaluations, equals max_attempts exactly.
C1_ExactBudget == Returned => attempts = max_attempts

\* C2: find_magic_numbers returns None only if no evaluated pair was
\* collision-free on the selectors.
C2_NoneOnlyWithoutUniquePair ==
  (Returned /\ ~best_solution.some) => min_unique = NoByte

\* C4: the attempt counter never leaves its range: the increment neither
\* panics nor wraps, for any max_attempts of the counter's range.
C4_NoCounterOverflow == pc # "panicked" /\ ~wrapped

\* C5: the bytes a returned Solution maps the selectors to are pairwise
\* distinct.
C5_ReturnedSolutionIsInjective ==
  (Returned /\ best_solution.some) =>
    \A i, j \in DOMAIN values : i # j => SolutionByte(values[i]) # SolutionByte(values[j])

\* A Solution has been returned for two selectors or more.
C5_Witness == pc = "returned" /\ best_solution.some /\ Len(values) >= 2

\* C6: the maximum byte of a returned Solution is the least maximum byte
\* of all collision-free pairs evaluated in the run.
C6_ReturnedIsLeastMaxByte ==
  (Returned /\ best_solution.some) =>
    /\ best_max_byte = max_byte_of(best_solution.q, best_solution.shift, values)
    /\ best_max_byte = min_unique

\* A Solution has been returned after the best-so-far was improved at least
\* once beyond the first Solution found.
C6_Witness == pc = "returned" /\ best_solution.some /\ Len(updates) >= 2

\* C7: the best-so-far changes only to the collision-free pair just
\* evaluated and only with a strictly lower maximum byte, so the reported
\* maximum bytes are strictly decreasing.
UpdatesStrictlyDecreasing ==
  \A i, j \in DOMAIN updates : i < j => updates[i] > updates[j]

C7_StrictImprovementOnly ==
  /\ []UpdatesStrictlyDecreasing
  /\ [][(best_solution' # best_solution \/ best_max_byte' # best_max_byte) =>
          /\ pc = "sweep"
          /\ \A i, j \in DOMAIN values :
               i # j => result_byte(values[i], q, shift) # result_byte(values[j], q, shift)
          /\ best_max_byte' < best_max_byte
          /\ best_solution' = Some(q, shift)]_vars

\* A collision-free pair whose maximum byte equals the recorded one has just
\* been evaluated, and the earlier-found Solution is still the recorded one.
C7_Witness ==
  /\ pc = "loop"
  /\ best_solution.some
  /\ Len(updates) >= 2
  /\ best_solution # Some(q, shift)
  /\ check_magic_numbers(q, shift, values)
  /\ max_byte_of(q, shift, values) = best_max_byte

\* ------------------------------------------------ claims about the layout
LayoutBuilt == pc \in {"print", "done"} /\ best_solution.some
OccupiedBytes == {SolutionByte(values[k]) : k \in DOMAIN values}
MaxOf(S) == CHOOSE b \in S : \A c \in S : c <= b

\* The slot of byte value b lies inside the reported gap g.
InGap(b, g) ==
  /\ g.from <= PreambleLength + SlotSize * b
  /\ PreambleLength + SlotSize * b + SlotSize <= g.to
GapsOf(b) == {k \in DOMAIN gaps : InGap(b, gaps[k])}

C8_OneEntryPerSelector ==
  LayoutBuilt =>
    /\ Len(dispatcher_offsets) = Len(values)
    /\ \A k \in DOMAIN values :
         \E i \in DOMAIN dispatcher_offsets :
           /\ dispatcher_offsets[i].selector = values[k]
           /\ dispatcher_offsets[i].result_byte = SolutionByte(values[k])
           /\ dispatcher_offsets[i].offset = 78 + 6 * SolutionByte(values[k])
           /\ dispatcher_offsets[i].addr = generate_function_addresses(Len(values))[k]
    /\ \A i, j \in DOMAIN dispatcher_offsets :
         i < j => dispatcher_offsets[i].offset < dispatcher_offsets[j].offset

\* A layout of two entries or more has been built for selectors that were
\* not given in the order of their bytes.
C8_Witness ==
  /\ LayoutBuilt
  /\ Len(dispatcher_offsets) >= 2
  /\ dispatcher_offsets[1].selector # values[1]

====
